---- MODULE Spec2Model ----
(***************************************************************************)
(* A model of rustfmt's block reconstruction engine (src/src/block.rs):    *)
(* FmtVisitor::visit_block, trim_spaces_after_opening_brace, close_block   *)
(* and walk_stmts, over a concrete source buffer.                          *)
(*                                                                         *)
(* Text is a sequence of one-character strings.  Byte positions are        *)
(* 0-based offsets into the source buffer, as BytePos is; a span is a      *)
(* record [lo, hi] denoting the half-open range lo..hi.                    *)
(***************************************************************************)
EXTENDS Integers, Sequences, FiniteSets, TLC

\* ------------------------------------------------------------------ bounds

\* Longest tail (in tokens) between the last item and the closing brace.
MaxTailTokens == 3
\* Longest statement sequence of a block.
MaxItems == 4
\* Deepest nesting of blocks below the visited block.
MaxDepth == 1

\* ------------------------------------------------------------------ text

NL == "\n"
SP == " "


\* usize::saturating_sub
SatSub(a, b) == IF a >= b THEN a - b ELSE 0

IsWhitespace(c) == c \in {SP, NL}

\* &s[from..to] with 0-based byte offsets
Slice(s, from, to) == SubSeq(s, from + 1, to)

RECURSIVE Spaces(_)
Spaces(n) == IF n <= 0 THEN <<>> ELSE <<SP>> \o Spaces(n - 1)

RECURSIVE Flatten(_)
Flatten(ss) == IF ss = <<>> THEN <<>> ELSE Head(ss) \o Flatten(Tail(ss))

\* str::contains(c)
Contains(s, c) == \E i \in 1..Len(s) : s[i] = c

\* str::ends_with(c)
EndsWith(s, c) == Len(s) > 0 /\ s[Len(s)] = c

\* str::rfind(c): the 0-based offset of the last c, or -1 for None
RFind(s, c) ==
    IF Contains(s, c) THEN (CHOOSE i \in 1..Len(s) : s[i] = c /\ \A j \in (i+1)..Len(s) : s[j] # c) - 1
    ELSE -1

\* str::trim_start, str::trim_end, str::trim
RECURSIVE TrimStart(_)
TrimStart(s) == IF s # <<>> /\ IsWhitespace(Head(s)) THEN TrimStart(Tail(s)) ELSE s

RECURSIVE TrimEnd(_)
TrimEnd(s) ==
    IF s # <<>> /\ IsWhitespace(s[Len(s)]) THEN TrimEnd(SubSeq(s, 1, Len(s) - 1)) ELSE s

Trim(s) == TrimEnd(TrimStart(s))

\* utils::count_newlines
count_newlines(s) == Cardinality({i \in 1..Len(s) : s[i] = NL})

\* utils::last_line_width: the width of the text after the last newline
last_line_width(s) == Len(s) - (RFind(s, NL) + 1)

\* ------------------------------------------------- Comment/Code Slicer

\* CodeCharKind
Comment == "Comment"
Normal == "Normal"

\* A comment-opening token (line or block comment) starts at 1-based index i.
IsCommentOpener(s, i) == i < Len(s) /\ s[i] = "/" /\ s[i + 1] \in {"/", "*"}

\* The 1-based index of the last character of the comment opening at i: a line
\* comment runs to the end of its line (its newline included), a block comment
\* to its closer, either one to the end of the input when unterminated.
CommentLast(s, i) ==
    IF s[i + 1] = "/"
    THEN IF \E j \in (i + 2)..Len(s) : s[j] = NL
         THEN CHOOSE j \in (i + 2)..Len(s) : s[j] = NL /\ \A k \in (i + 2)..(j - 1) : s[k] # NL
         ELSE Len(s)
    ELSE LET closers == {j \in (i + 3)..Len(s) : s[j - 1] = "*" /\ s[j] = "/"}
         IN IF closers = {} THEN Len(s)
            ELSE CHOOSE j \in closers : \A k \in closers : j <= k

\* The 1-based index of the last character of the normal run starting at i.
NormalLast(s, i) ==
    LET openers == {j \in (i + 1)..Len(s) : IsCommentOpener(s, j)}
    IN IF openers = {} THEN Len(s)
       ELSE (CHOOSE j \in openers : \A k \in openers : j <= k) - 1

\* The 1-based index of the last character of the comment slice starting at i:
\* slices alternate between comment and normal code, so comments that follow
\* one another with nothing in between make one slice.
RECURSIVE CommentRunLast(_, _)
CommentRunLast(s, i) ==
    LET last == CommentLast(s, i)
    IN IF IsCommentOpener(s, last + 1) THEN CommentRunLast(s, last + 1) ELSE last

\* CommentCodeSlices::new(s) collected: the (kind, offset, text) slices of s
\* from 1-based index i on.
RECURSIVE SlicesFrom(_, _)
SlicesFrom(s, i) ==
    IF i > Len(s) THEN <<>>
    ELSE LET kind == IF IsCommentOpener(s, i) THEN Comment ELSE Normal
             last == IF kind = Comment THEN CommentRunLast(s, i) ELSE NormalLast(s, i)
         IN <<[kind |-> kind, offset |-> i - 1, text |-> SubSeq(s, i, last)]>>
            \o SlicesFrom(s, last + 1)

CommentCodeSlices(s) == SlicesFrom(s, 1)

\* comment::contains_comment
contains_comment(s) ==
    \E i \in 1..Len(CommentCodeSlices(s)) : CommentCodeSlices(s)[i].kind = Comment

\* ------------------------------------------ Indentation/Shape Tracker

\* config.tab_spaces()
TabSpaces == 2

\* Indent::block_indent, Indent::block_unindent, Indent::width; an Indent is
\* its width in columns (no alignment is ever added to the visitor's indent).
IndentBlockIndent(indent) == indent + TabSpaces
IndentBlockUnindent(indent) == indent - TabSpaces
IndentWidth(indent) == indent

\* Indent::to_string_with_newline
to_string_with_newline(indent) == <<NL>> \o Spaces(IndentWidth(indent))

\* Option<T>
None == [some |-> FALSE]
Some(v) == [some |-> TRUE, v |-> v]

\* Shape::indented(indent, config).comment(config)
ShapeIndented(indent, max_width) ==
    [width |-> SatSub(max_width, IndentWidth(indent)), indent |-> indent, offset |-> 0]

\* Shape::visual_indent
ShapeVisualIndent(shape, extra_width) ==
    [shape EXCEPT !.indent = shape.indent + extra_width, !.offset = shape.offset + extra_width]

\* Shape::sub_width: None unless some width is left after taking `width` away
ShapeSubWidth(shape, width) ==
    IF shape.width > width THEN Some([shape EXCEPT !.width = shape.width - width])
    ELSE None

\* ------------------------------------------------- comment re-wrapping

\* The lines of a text (str::lines on the trimmed text).
RECURSIVE Lines(_)
Lines(s) ==
    IF ~Contains(s, NL) THEN <<s>>
    ELSE LET k == CHOOSE i \in 1..Len(s) : s[i] = NL /\ \A j \in 1..(i - 1) : s[j] # NL
         IN <<SubSeq(s, 1, k - 1)>> \o Lines(SubSeq(s, k + 1, Len(s)))

RECURSIVE JoinLines(_, _)
JoinLines(ls, sep) ==
    IF Len(ls) = 1 THEN Trim(ls[1])
    ELSE Trim(ls[1]) \o sep \o JoinLines(Tail(ls), sep)

\* The re-wrapped comment: surrounding whitespace trimmed, every internal line
\* break normalized to a newline followed by the shape's indentation.
Rewrapped(orig, shape) == JoinLines(Lines(Trim(orig)), to_string_with_newline(shape.indent))

Fits(text, shape) == \A i \in 1..Len(Lines(text)) : Len(Trim(Lines(text)[i])) <= shape.width

\* comment::rewrite_comment(orig, false, shape, config) under the collaborator
\* `rewriter`: one that always re-wraps, one that always fails, and one that
\* fails when a line of the comment does not fit the shape's width.
rewrite_comment(orig, shape, rewriter) ==
    IF rewriter = "never" \/ (rewriter = "fits" /\ ~Fits(orig, shape)) THEN None
    ELSE Some(Rewrapped(orig, shape))

\* coverage::transform_missing_snippet: the slice as it is
transform_missing_snippet(sub_slice) == sub_slice

\* ------------------------------------------------------- Block Model

\* block.rs: const BRACE_COMPENSATION: BytePos = BytePos(1)
BRACE_COMPENSATION == 1

\* EmptyBlockStyle
SingleLine == "SingleLine"
MultiLine == "MultiLine"

mk_sp(lo, hi) == [lo |-> lo, hi |-> hi]

\* The source text of an item: a `use` declaration, a statement ending in a
\* semicolon, a trailing expression, a trailing `return`, a module-level item,
\* or a function whose body is a nested block.
ItemText(kind, body) ==
    CASE kind = "use" -> <<"u", ";">>
      [] kind = "semi" -> <<"x", ";">>
      [] kind = "expr" -> <<"x">>
      [] kind = "ret" -> <<"r">>
      [] kind = "item" -> <<"s", ";">>
      [] kind = "fn" -> <<"f", SP>> \o body[1].text

\* The items `its` ([kind, body]) laid out from offset `at` on, one per line;
\* an item's span is relative to the start of its block.
RECURSIVE PlaceItems(_, _)
PlaceItems(its, at) ==
    IF its = <<>> THEN <<>>
    ELSE LET it == Head(its)
             hi == at + Len(ItemText(it.kind, it.body))
         IN <<[kind |-> it.kind, lo |-> at, hi |-> hi, body |-> it.body]>>
            \o PlaceItems(Tail(its), hi + 1)

RECURSIVE ItemsText(_)
ItemsText(its) ==
    IF its = <<>> THEN <<>>
    ELSE IF Len(its) = 1 THEN ItemText(its[1].kind, its[1].body)
    ELSE ItemText(its[1].kind, its[1].body) \o <<NL>> \o ItemsText(Tail(its))

\* A parsed block and its text: `{`, the gap, the inner attribute (attrs = 2;
\* 0 is None and 1 is Some of an empty list), the items, the tail, `}`.
MkBlock(variant, style, attrs, gap, its, tail) ==
    LET attrText == IF attrs = 2 THEN <<"#", NL>> ELSE <<>>
        attrLo == 1 + Len(gap)
        first == attrLo + Len(attrText)
    IN [text |-> <<"{">> \o gap \o attrText \o ItemsText(its) \o tail \o <<"}">>,
        items |-> PlaceItems(its, first),
        inner_attrs |-> IF attrs = 0 THEN None
                        ELSE IF attrs = 1 THEN Some(<<>>)
                        ELSE Some(<<mk_sp(attrLo, attrLo + 1)>>),
        empty_block_style |-> style,
        variant |-> variant]

Atom(kind) == [kind |-> kind, body |-> <<>>]
Fn(body) == [kind |-> "fn", body |-> <<body>>]

\* The sequences of at most n elements of S.
SeqUpTo(S, n) == UNION {[1..k -> S] : k \in 0..n}

\* ---------------------------------------------------------- the inputs

LineComment == <<"/", "/", "c", NL>>
BlockComment == <<"/", "*", "c", "*", "/">>
LongComment == <<"/", "*", "c", NL, SP, "c", "*", "/">>

TailTokens == {LineComment, BlockComment, LongComment, <<SP>>, <<NL>>, <<";">>}

\* The tails made of comments, whitespace and semicolons.
Tails == {Flatten(ts) : ts \in SeqUpTo(TailTokens, MaxTailTokens)}

Styles == {SingleLine, MultiLine}

\* Statement sequences: `use` declarations and statements in any order, with
\* an optional trailing expression or `return` in the last place.
StmtSeqs ==
    LET plain == SeqUpTo({"use", "semi"}, MaxItems)
    IN plain \cup {Append(p, k) : p \in SeqUpTo({"use", "semi"}, MaxItems - 1), k \in {"expr", "ret"}}


SmallTails == {<<>>, <<NL>>, <<SP>> \o LineComment, <<NL>> \o LineComment}

Gaps == {<<>>, <<SP>>, <<NL>>, <<NL, NL, SP>>, <<SP>> \o LineComment, <<NL>> \o BlockComment \o <<NL>>}

\* Blocks nested to depth d: a chain of functions, each body holding an
\* optional statement and the next function.
RECURSIVE NestedBlocks(_)
NestedBlocks(d) ==
    IF d = 0
    THEN {MkBlock("Stmt", MultiLine, 0, <<>>, its, t) : its \in {<<>>, <<Atom("semi")>>}, t \in SmallTails}
    ELSE {MkBlock("Stmt", MultiLine, 0, <<NL>>, pre \o <<Fn(inner)>>, t) :
            pre \in {<<>>, <<Atom("semi")>>}, inner \in NestedBlocks(d - 1), t \in SmallTails}

FileLinesAll == [all |-> TRUE, lines |-> {}]

Rewriters == {"always", "never", "fits"}

\* ------------------------------------------------------------- state

VARIABLES
    src,              \* the immutable source buffer
    root,             \* the parsed block handed to the engine
    config,           \* max_width, trailing_semicolon, file_lines, rewriter
    buffer,           \* FmtVisitor::buffer, the output text
    last_pos,         \* FmtVisitor::last_pos, the last processed position
    block_indent,     \* FmtVisitor::block_indent
    is_if_else_block, \* FmtVisitor::is_if_else_block
    stack,            \* the active visit_block calls, innermost last
    cb,               \* the locals of the active close_block call
    calls,            \* history: the calls made on behalf of each block
    emitted,          \* history: what close_block did for each slice it handled
    ret,              \* history: how the last visit_block call returned
    input,            \* the arguments of a call of one of the other functions
    output            \* what that call has returned

vars == <<src, root, config, buffer, last_pos, block_indent, is_if_else_block,
          stack, cb, calls, emitted, ret, input, output>>

\* No function outside the block engine is called.
NoInput == [fn |-> "none"]
NoOutput == [done |-> FALSE]

NoCall == [active |-> FALSE, span |-> mk_sp(0, 0), slices |-> <<>>, last_hi |-> 0,
           unindented |-> FALSE, prev_ends_with_newline |-> FALSE,
           extra_newline |-> FALSE, unindent_comment |-> FALSE]

NoRet == [path |-> "none"]

\* A visit_block call about to start on block b, whose text starts at `base`.
\* entry_indent and out_lo remember the indent and the output length on entry,
\* tail_at the output length when the rest of the block is reached, trimmed
\* the cursor trim_spaces_after_opening_brace left, items_at the output length
\* when the items were done.
Frame(b, base) ==
    [b |-> b, base |-> base, pc |-> "enter", i |-> 1, entry_indent |-> 0, out_lo |-> 0,
     tail_at |-> 0, trimmed |-> 0, items_at |-> 0]

\* The text already on the output line when the block is reached.
Prefix(indent) == Spaces(indent) \o <<"f", SP>>

\* The visitor when the engine is entered for block b.
Start(b, cfg, indent, ifelse) ==
    /\ src = b.text
    /\ root = b
    /\ config = cfg
    /\ buffer = Prefix(indent)
    /\ last_pos = 0
    /\ block_indent = indent
    /\ is_if_else_block = ifelse
    /\ stack = <<Frame(b, 0)>>
    /\ cb = NoCall
    /\ calls = <<>>
    /\ emitted = <<>>
    /\ ret = NoRet
    /\ input = NoInput
    /\ output = NoOutput

Config(w, ts, fl, rw) ==
    [max_width |-> w, trailing_semicolon |-> ts, file_lines |-> fl, rewriter |-> rw]

\* config.max_width(): too narrow for `{}`, too narrow for a trailing comment, wide
NarrowWidth == TabSpaces + 3
MidWidth == 2 * TabSpaces + 3
WideWidth == 2 * TabSpaces + 16

\* Tails of every shape after no item or one statement.
InitTails ==
    \E t \in Tails, its \in {<<>>, <<Atom("semi")>>}, w \in {MidWidth, WideWidth},
       ifelse \in BOOLEAN, rw \in Rewriters :
        Start(MkBlock("Stmt", MultiLine, 0, <<>>, its, t),
              Config(w, FALSE, FileLinesAll, rw), TabSpaces, ifelse)

\* Tails that hold code as well.
InitCodeTails ==
    \E ts \in SeqUpTo({LineComment, <<NL>>, <<"y">>}, MaxTailTokens), ifelse \in BOOLEAN :
        Start(MkBlock("Stmt", MultiLine, 0, <<>>, <<Atom("semi")>>, Flatten(ts)),
              Config(WideWidth, FALSE, FileLinesAll, "always"), TabSpaces, ifelse)

\* Statement sequences of statement blocks and of module blocks.
InitStmts ==
    \E kinds \in StmtSeqs, variant \in {"Stmt", "Item"}, t \in {<<NL>>, <<SP>> \o LineComment},
       ts \in BOOLEAN :
        /\ variant = "Item" => \A i \in 1..Len(kinds) : kinds[i] \in {"use", "semi"}
        /\ Start(MkBlock(variant, MultiLine, 0, <<NL>>,
                         [i \in 1..Len(kinds) |->
                            Atom(IF variant = "Item" /\ kinds[i] = "semi" THEN "item" ELSE kinds[i])],
                         t),
                 Config(WideWidth, ts, FileLinesAll, "always"), 0, FALSE)

\* Gaps, inner attributes, empty-block styles and line-range filters.
InitGaps ==
    \E g \in Gaps, attrs \in 0..2, its \in {<<>>, <<Atom("semi")>>}, st \in Styles,
       t \in {<<>>, <<NL>>, <<NL>> \o LineComment}, w \in {NarrowWidth, WideWidth},
       fl \in {FileLinesAll} \cup {[all |-> FALSE, lines |-> {k}] : k \in 1..3}, ifelse \in BOOLEAN :
        /\ fl.all \/ (w = WideWidth /\ ~ifelse /\ st = MultiLine)
        /\ Start(MkBlock("Stmt", st, attrs, g, its, t),
                 Config(w, FALSE, fl, "always"), TabSpaces, ifelse)

\* Nested blocks.
InitNested ==
    \E b \in NestedBlocks(MaxDepth), ifelse \in BOOLEAN, rw \in {"always", "never"} :
        Start(b, Config(WideWidth, FALSE, FileLinesAll, rw), TabSpaces, ifelse)

\* config.max_width(): one column more than the indentation inside the block
TightWidth == TabSpaces + 1

\* A bare block at the start of its line, holding comments only.
InitBare ==
    \E t \in {<<SP>> \o LineComment, BlockComment, <<NL>> \o LineComment, <<SP>> \o BlockComment \o <<SP>> \o BlockComment},
       w \in {TightWidth, MidWidth}, rw \in Rewriters :
        /\ src = MkBlock("Stmt", MultiLine, 0, <<>>, <<>>, t).text
        /\ root = MkBlock("Stmt", MultiLine, 0, <<>>, <<>>, t)
        /\ config = Config(w, FALSE, FileLinesAll, rw)
        /\ buffer = <<>>
        /\ last_pos = 0
        /\ block_indent = 0
        /\ is_if_else_block = FALSE
        /\ stack = <<Frame(root, 0)>>
        /\ cb = NoCall
        /\ calls = <<>>
        /\ emitted = <<>>
        /\ ret = NoRet
        /\ input = NoInput
        /\ output = NoOutput

Init == InitTails \/ InitCodeTails \/ InitStmts \/ InitGaps \/ InitNested \/ InitBare

\* ------------------------------------------------------ collaborators

\* FmtVisitor::snippet
snippet(span) == Slice(src, span.lo, span.hi)

\* FmtVisitor::next_span, from the cursor lp
next_span(lp, hi) == mk_sp(lp, hi)

\* The 1-based line of a byte position.
LineOf(pos) == 1 + count_newlines(Slice(src, 0, pos))

\* out_of_file_lines_range!: a line filter is set and no line of the span is in it
out_of_file_lines_range(span) ==
    /\ ~config.file_lines.all
    /\ (LineOf(span.lo)..LineOf(span.hi)) \cap config.file_lines.lines = {}

\* FmtVisitor::format_missing_with_indent: what lies between the cursor and
\* the next construct, then a fresh indented line.
format_missing_with_indent(buf, lp, hi, indent) ==
    LET missing == Trim(snippet(mk_sp(lp, hi)))
    IN (IF missing = <<>> THEN buf ELSE buf \o to_string_with_newline(indent) \o missing)
       \o to_string_with_newline(indent)

\* utils::stmt_expr and utils::semicolon_for_expr: a trailing `return` takes a
\* semicolon when the configuration asks for trailing semicolons.
semicolon_for_expr(kind) == kind = "ret" /\ config.trailing_semicolon

\* Stmt::to_item and items::is_use_item
is_use_item(item) == item.kind = "use"

Top == stack[Len(stack)]

\* SpanOf were the closing brace left out of the span.
SpanOfWithoutClosingBrace(f) == mk_sp(f.base, f.base + Len(f.b.text) - BRACE_COMPENSATION)

\* b.span of the block of frame f
SpanOf(f) == mk_sp(f.base, f.base + Len(f.b.text))

\* ------------------------------------------------------ Block Visitor

\* is_empty_block were the comment test left out.
is_empty_block_ignoring_comments(b, span) ==
    /\ b.items = <<>>
    /\ (~b.inner_attrs.some \/ b.inner_attrs.v = <<>>)

\* FmtVisitor::is_empty_block
is_empty_block(b, span) ==
    /\ b.items = <<>>
    /\ (~b.inner_attrs.some \/ b.inner_attrs.v = <<>>)
    /\ ~contains_comment(snippet(span))

\* EmptyOnOneLine were a line of exactly max_width accepted.
EmptyOnOneLineInclusive(style, buf) ==
    style = SingleLine /\ last_line_width(buf) <= config.max_width

\* The match on empty_block_style in visit_block: may `}` follow on this line?
EmptyOnOneLine(style, buf) ==
    style = SingleLine /\ last_line_width(buf) < config.max_width

\* requires_semicolon were the configuration not asked.
requires_semicolon_whatever_the_config(variant, it) ==
    IF variant = "Item" THEN FALSE ELSE it.kind = "ret"

\* Visitable::requires_semicolon of item `it` of a block of the given variant
requires_semicolon(variant, it) ==
    IF variant = "Item" THEN FALSE ELSE semicolon_for_expr(it.kind)

\* unindent_comment_on_closing_brace were the items not looked at.
unindent_comment_whatever_the_items(b) == is_if_else_block

\* FmtVisitor::unindent_comment_on_closing_brace
unindent_comment_on_closing_brace(b) == is_if_else_block /\ b.items # <<>>

\* FmtVisitor::trim_spaces_after_opening_brace: the cursor after the call
trim_spaces_after_opening_brace(f, lp) ==
    IF f.b.items = <<>> THEN lp
    ELSE LET hi == IF f.b.inner_attrs.some /\ f.b.inner_attrs.v # <<>>
                   THEN f.base + f.b.inner_attrs.v[1].lo
                   ELSE f.base + f.b.items[1].lo
             slices == CommentCodeSlices(snippet(next_span(lp, hi)))
             len == IF slices # <<>> /\ slices[1].kind = Normal
                    THEN RFind(slices[1].text, NL) ELSE -1
         IN IF len >= 0 THEN lp + len ELSE lp

\* visit_block of frame f returns along `path`: `rest` is the span it handed
\* on (copied or reconstructed), `tail_at` the output length before that.
Return(f, path, ind, rest, tail_at) ==
    /\ stack' = SubSeq(stack, 1, Len(stack) - 1)
    /\ ret' = [path |-> path, depth |-> Len(stack), b |-> f.b, span |-> SpanOf(f),
               entry_indent |-> f.entry_indent, exit_indent |-> ind,
               out_lo |-> f.out_lo, rest |-> rest, tail_at |-> tail_at,
               items_at |-> f.items_at,
               out_hi |-> Len(buffer'),
               log |-> IF path = "closed" THEN emitted ELSE <<>>]

\* visit_block, from its entry to the empty block's return or to the item visits
VisitBlock ==
    /\ stack # <<>> /\ Top.pc = "enter"
    /\ LET f == [Top EXCEPT !.entry_indent = block_indent, !.out_lo = Len(buffer)]
           b == f.b
           pos1 == last_pos + BRACE_COMPENSATION
           ind1 == IndentBlockIndent(block_indent)
           buf1 == buffer \o <<"{">>
       IN IF is_empty_block(b, SpanOf(f))
          THEN LET ind2 == IndentBlockUnindent(ind1)
               IN /\ buffer' = IF EmptyOnOneLine(b.empty_block_style, buf1)
                               THEN buf1 \o <<"}">>
                               ELSE buf1 \o to_string_with_newline(ind2) \o <<"}">>
                  /\ block_indent' = ind2
                  /\ last_pos' = SpanOf(f).hi
                  /\ Return(f, "empty", ind2, mk_sp(pos1, pos1), Len(buf1))
          ELSE LET pos2 == trim_spaces_after_opening_brace(f, pos1)
                   hasAttr == b.inner_attrs.some /\ b.inner_attrs.v # <<>>
                   attr == mk_sp(f.base + b.inner_attrs.v[1].lo, f.base + b.inner_attrs.v[1].hi)
               IN /\ buffer' = IF hasAttr
                               THEN format_missing_with_indent(buf1, pos2, attr.lo, ind1)
                                    \o snippet(attr)
                               ELSE buf1
                  /\ block_indent' = ind1
                  /\ last_pos' = IF hasAttr THEN attr.hi ELSE pos2
                  /\ stack' = [stack EXCEPT ![Len(stack)] = [f EXCEPT !.pc = "items",
                                                                         !.trimmed = pos2]]
                  /\ UNCHANGED ret
    /\ UNCHANGED <<input, output, src, root, config, is_if_else_block, cb, calls, emitted>>

\* LeadingUses were the run cut after its first item.
LeadingUsesOne(stmts) ==
    IF stmts # <<>> /\ is_use_item(Head(stmts)) THEN 1 ELSE 0

\* LeadingUses were the `use` items filtered out of the whole sequence.
RECURSIVE LeadingUsesFiltered(_)
LeadingUsesFiltered(stmts) ==
    IF stmts = <<>> THEN 0
    ELSE (IF is_use_item(Head(stmts)) THEN 1 ELSE 0) + LeadingUsesFiltered(Tail(stmts))

\* The length of the leading run of `use` items of stmts (walk_stmts: the
\* take_while over the statements).
RECURSIVE LeadingUses(_)
LeadingUses(stmts) ==
    IF stmts # <<>> /\ is_use_item(Head(stmts)) THEN 1 + LeadingUses(Tail(stmts)) ELSE 0

\* The output after the items `its` of frame f are emitted one per line
\* (visit_stmt on one item, or visit_items_with_reordering on a group).
RECURSIVE EmitItems(_, _, _, _)
EmitItems(f, its, buf, lp) ==
    IF its = <<>> THEN buf
    ELSE LET sp == mk_sp(f.base + Head(its).lo, f.base + Head(its).hi)
         IN EmitItems(f, Tail(its),
                      format_missing_with_indent(buf, lp, sp.lo, block_indent) \o snippet(sp),
                      sp.hi)

Remaining(f) == SubSeq(f.b.items, f.i, Len(f.b.items))

Call(op, from, n) == [op |-> op, depth |-> Len(stack), from |-> from, n |-> n]

\* walk_stmts on a sequence with no leading `use`: visit_stmt on the first
\* statement, then walk the rest.  A function's body is visited as a block.
WalkStmtsVisitStmt ==
    /\ stack # <<>> /\ Top.pc = "items" /\ Top.b.variant = "Stmt"
    /\ Remaining(Top) # <<>>
    /\ LeadingUses(Remaining(Top)) = 0
    /\ LET f == Top
           it == f.b.items[f.i]
           sp == mk_sp(f.base + it.lo, f.base + it.hi)
           walked == [stack EXCEPT ![Len(stack)] = [f EXCEPT !.i = f.i + 1]]
       IN /\ calls' = Append(calls, Call("visit_stmt", f.i, 1))
          /\ IF it.kind = "fn"
             THEN /\ buffer' = format_missing_with_indent(buffer, last_pos, sp.lo, block_indent)
                               \o <<"f", SP>>
                  /\ last_pos' = sp.lo + 2
                  /\ stack' = Append(walked, Frame(it.body[1], sp.lo + 2))
             ELSE /\ buffer' = EmitItems(f, <<it>>, buffer, last_pos)
                  /\ last_pos' = sp.hi
                  /\ stack' = walked
    /\ UNCHANGED <<input, output, src, root, config, block_indent, is_if_else_block, cb, emitted, ret>>

\* walk_stmts on a sequence with leading `use` items: the run goes to
\* visit_items_with_reordering as one unit, then the rest is walked.
WalkStmtsGroup ==
    /\ stack # <<>> /\ Top.pc = "items" /\ Top.b.variant = "Stmt"
    /\ Remaining(Top) # <<>>
    /\ LeadingUses(Remaining(Top)) > 0
    /\ LET f == Top
           items == SubSeq(f.b.items, f.i, f.i + LeadingUses(Remaining(f)) - 1)
       IN /\ calls' = Append(calls, Call("visit_items_with_reordering", f.i, Len(items)))
          /\ buffer' = EmitItems(f, items, buffer, last_pos)
          /\ last_pos' = f.base + items[Len(items)].hi
          /\ stack' = [stack EXCEPT ![Len(stack)] = [f EXCEPT !.i = f.i + Len(items)]]
    /\ UNCHANGED <<input, output, src, root, config, block_indent, is_if_else_block, cb, emitted, ret>>

\* Visitable::visit_on for module items: all of them go to
\* visit_items_with_reordering.
VisitOnItems ==
    /\ stack # <<>> /\ Top.pc = "items" /\ Top.b.variant = "Item"
    /\ Remaining(Top) # <<>>
    /\ LET f == Top
           items == f.b.items
       IN /\ calls' = Append(calls, Call("visit_items_with_reordering", 1, Len(items)))
          /\ buffer' = EmitItems(f, items, buffer, last_pos)
          /\ last_pos' = f.base + items[Len(items)].hi
          /\ stack' = [stack EXCEPT ![Len(stack)] = [f EXCEPT !.i = Len(items) + 1]]
    /\ UNCHANGED <<input, output, src, root, config, block_indent, is_if_else_block, cb, emitted, ret>>

\* MissingSpan were the closing brace left in.
MissingSpanWithClosingBrace(lp, hi) == next_span(lp, hi)

\* visit_block: the span handed to close_block, the closing brace left out
MissingSpan(lp, hi) == next_span(lp, hi - BRACE_COMPENSATION)

\* CopyVerbatim were the rest of the block trimmed before it is copied.
CopyTrimmed(buf, rest_span) == buf \o Trim(snippet(rest_span))

\* visit_block: the output after the rest of the block is copied verbatim
CopyVerbatim(buf, rest_span) == buf \o snippet(rest_span)

\* visit_block after the items: the separator, then the rest of the block
\* either copied verbatim or handed to close_block.
VisitBlockTail ==
    /\ stack # <<>> /\ Top.pc = "items"
    /\ Remaining(Top) = <<>>
    /\ LET f == Top
           b == f.b
           semi == b.items # <<>> /\ requires_semicolon(b.variant, b.items[Len(b.items)])
           buf1 == IF semi THEN buffer \o <<";">> ELSE buffer
           rest_span == next_span(last_pos, SpanOf(f).hi)
       IN IF out_of_file_lines_range(rest_span)
          THEN LET ind == IndentBlockUnindent(block_indent)
               IN /\ buffer' = CopyVerbatim(buf1, rest_span)
                  /\ block_indent' = ind
                  /\ last_pos' = SpanOf(f).hi
                  /\ Return([f EXCEPT !.items_at = Len(buffer)], "verbatim", ind, rest_span,
                            Len(buf1))
                  /\ UNCHANGED <<cb, emitted, calls>>
          ELSE LET missing_span == MissingSpan(last_pos, SpanOf(f).hi)
               IN /\ buffer' = buf1
                  /\ cb' = [active |-> TRUE,
                            span |-> missing_span,
                            slices |-> CommentCodeSlices(snippet(missing_span)),
                            last_hi |-> missing_span.lo,
                            unindented |-> FALSE,
                            prev_ends_with_newline |-> FALSE,
                            extra_newline |-> FALSE,
                            unindent_comment |-> unindent_comment_on_closing_brace(b)]
                  /\ emitted' = <<>>
                  /\ calls' = Append(calls, Call("close_block", missing_span.lo, missing_span.hi))
                  /\ stack' = [stack EXCEPT ![Len(stack)] = [f EXCEPT !.pc = "close", !.tail_at = Len(buf1),
                                                                         !.items_at = Len(buffer)]]
                  /\ UNCHANGED <<block_indent, last_pos, ret>>
    /\ UNCHANGED <<input, output, src, root, config, is_if_else_block>>

\* ------------------------------------------------ Closing Reconstructor

\* close_block: the skip_normal closure
skip_normal(s) ==
    Trim(s) = <<>> \/ \A i \in 1..Len(Trim(s)) : Trim(s)[i] = ";"

\* close_block: is one indent level dropped before this comment?
UnindentNow(unindented, unindent_comment) == ~unindented /\ unindent_comment

\* SameLineShape were a newline in the gap overlooked.
SameLineShapeWhateverTheGap(snippet_in_between, buf, indent) ==
    LET offset_len == 1 + SatSub(last_line_width(buf), IndentWidth(indent))
    IN ShapeSubWidth(ShapeVisualIndent(ShapeIndented(indent, config.max_width), offset_len),
                     offset_len)

\* close_block: the shape of a comment kept on the line of the emitted
\* content, None when the line leaves no room for it
SameLineShape(snippet_in_between, buf, indent) ==
    IF Contains(snippet_in_between, NL) THEN None
    ELSE LET offset_len == 1 + SatSub(last_line_width(buf), IndentWidth(indent))
         IN ShapeSubWidth(ShapeVisualIndent(ShapeIndented(indent, config.max_width), offset_len),
                          offset_len)

\* BlankLineBefore were the flag left by a skipped slice ignored.
BlankLineBeforeIgnoringFlag(snippet_in_between, extra_newline) ==
    count_newlines(snippet_in_between) >= 2

\* close_block: is a blank line emitted before a comment on its own line?
BlankLineBefore(snippet_in_between, extra_newline) ==
    count_newlines(snippet_in_between) >= 2 \/ extra_newline

\* CommentText were the comment trimmed when the re-wrapper fails.
CommentTextTrimmed(comment_str, sub_slice) ==
    IF comment_str.some THEN comment_str.v ELSE Trim(sub_slice)

\* CommentText were the comment left out when the re-wrapper fails.
CommentTextDropped(comment_str, sub_slice) ==
    IF comment_str.some THEN comment_str.v ELSE <<>>

\* close_block: the text emitted for a comment given the re-wrapper's answer
CommentText(comment_str, sub_slice) ==
    IF comment_str.some THEN comment_str.v ELSE sub_slice

\* close_block: extra_newline after a skipped slice
ExtraNewline(prev_ends_with_newline, sub_slice) ==
    prev_ends_with_newline /\ Contains(sub_slice, NL)

\* LastHi were the slice's offset left out.
LastHiWithoutOffset(span, offset, sub_slice) == span.lo + Len(sub_slice)

\* close_block: the cursor after a slice that was not skipped
LastHi(span, offset, sub_slice) == span.lo + offset + Len(sub_slice)

\* close_block: one iteration of the loop over the slices of the span
CloseBlockSlice ==
    /\ stack # <<>> /\ Top.pc = "close"
    /\ cb.slices # <<>>
    /\ LET kind == Head(cb.slices).kind
           offset == Head(cb.slices).offset
           sub_slice == transform_missing_snippet(Head(cb.slices).text)
           moved == [cb EXCEPT !.slices = Tail(@),
                               !.prev_ends_with_newline = EndsWith(sub_slice, NL),
                               !.extra_newline = FALSE,
                               !.last_hi = LastHi(cb.span, offset, sub_slice)]
           entry == [kind |-> kind, offset |-> offset, text |-> sub_slice, skipped |-> FALSE,
                     gap |-> <<>>, extra |-> cb.extra_newline, same_line |-> FALSE,
                     blank |-> FALSE, rewrapped |-> FALSE, indent |-> block_indent,
                     at |-> Len(buffer), out |-> <<>>]
       IN IF kind = Comment
          THEN LET un == UnindentNow(cb.unindented, cb.unindent_comment)
                   ind == IF un THEN IndentBlockUnindent(block_indent) ELSE block_indent
                   snippet_in_between == snippet(mk_sp(cb.last_hi, cb.span.lo + offset))
                   same == SameLineShape(snippet_in_between, buffer, ind)
                   comment_on_same_line == same.some
                   comment_shape == IF same.some THEN same.v
                                    ELSE ShapeIndented(ind, config.max_width)
                   blank == ~comment_on_same_line
                            /\ BlankLineBefore(snippet_in_between, cb.extra_newline)
                   lead == IF comment_on_same_line THEN <<SP>>
                           ELSE (IF blank THEN <<NL>> ELSE <<>>) \o to_string_with_newline(ind)
                   comment_str == rewrite_comment(sub_slice, comment_shape, config.rewriter)
                   out == lead \o CommentText(comment_str, sub_slice)
               IN /\ buffer' = buffer \o out
                  /\ block_indent' = ind
                  /\ cb' = [moved EXCEPT !.unindented = cb.unindented \/ un]
                  /\ emitted' = Append(emitted,
                        [entry EXCEPT !.gap = snippet_in_between,
                                      !.same_line = comment_on_same_line,
                                      !.blank = blank, !.rewrapped = comment_str.some,
                                      !.indent = ind, !.out = out])
          ELSE IF skip_normal(sub_slice)
          THEN /\ cb' = [cb EXCEPT !.slices = Tail(@),
                                   !.extra_newline = ExtraNewline(cb.prev_ends_with_newline, sub_slice)]
               /\ emitted' = Append(emitted, [entry EXCEPT !.skipped = TRUE])
               /\ UNCHANGED <<buffer, block_indent>>
          ELSE LET out == to_string_with_newline(block_indent) \o Trim(sub_slice)
               IN /\ buffer' = buffer \o out
                  /\ cb' = moved
                  /\ emitted' = Append(emitted, [entry EXCEPT !.out = out])
                  /\ UNCHANGED block_indent
    /\ UNCHANGED <<input, output, src, root, config, last_pos, is_if_else_block, stack, calls, ret>>

\* IndentAfterLoop were the unindent not undone.
IndentAfterLoopNotRestored(indent, unindented) == IndentBlockUnindent(indent)

\* close_block: the indent after the loop, the unindent undone and the block's
\* own level popped
IndentAfterLoop(indent, unindented) ==
    IndentBlockUnindent(IF unindented THEN IndentBlockIndent(indent) ELSE indent)

\* close_block after the loop, and visit_block's return after it
CloseBlockEnd ==
    /\ stack # <<>> /\ Top.pc = "close"
    /\ cb.slices = <<>>
    /\ LET ind == IndentAfterLoop(block_indent, cb.unindented)
       IN /\ buffer' = buffer \o to_string_with_newline(ind) \o <<"}">>
          /\ block_indent' = ind
          /\ last_pos' = SpanOf(Top).hi
          /\ cb' = NoCall
          /\ Return(Top, "closed", ind, cb.span, Top.tail_at)
    /\ UNCHANGED <<input, output, src, root, config, is_if_else_block, calls, emitted>>

Next ==
    \/ VisitBlock
    \/ WalkStmtsVisitStmt
    \/ WalkStmtsGroup
    \/ VisitOnItems
    \/ VisitBlockTail
    \/ CloseBlockSlice
    \/ CloseBlockEnd

Spec == Init /\ [][Next]_vars

\* The walk over statement sequences, nested blocks among them. The visitor is
\* one sequential call: a step that can be taken is taken.
WalkInit == InitStmts \/ (InitNested /\ ~is_if_else_block /\ config.rewriter = "always")

WalkSpec == WalkInit /\ [][Next]_vars /\ WF_vars(Next)

\* ------------------------------------------------------------ properties

\* The characters of s that are neither whitespace nor semicolons: what a text
\* made of comments and filler holds besides the filler.
RECURSIVE CommentContent(_)
CommentContent(s) ==
    IF s = <<>> THEN <<>>
    ELSE (IF IsWhitespace(Head(s)) \/ Head(s) = ";" THEN <<>> ELSE <<Head(s)>>)
         \o CommentContent(Tail(s))

\* The text is made of comments, whitespace and semicolons only.
OnlyCommentsAndFiller(text) ==
    \A k \in 1..Len(CommentCodeSlices(text)) :
        CommentCodeSlices(text)[k].kind = Normal
            => \A i \in 1..Len(CommentCodeSlices(text)[k].text) :
                   IsWhitespace(CommentCodeSlices(text)[k].text[i])
                   \/ CommentCodeSlices(text)[k].text[i] = ";"

\* The slices close_block has handled so far.
HandledText == Flatten([k \in 1..Len(emitted) |-> emitted[k].text])

InCloseBlock == stack # <<>> /\ Top.pc = "close"

CommentsHandled == {k \in 1..Len(emitted) : emitted[k].kind = Comment}

\* C1: while close_block works on a tail of comments, whitespace and
\* semicolons, the slices it has handled are exactly the slicer's slices up to
\* the ones still to come, in order, and what it has appended to the output
\* holds the content of every comment among them once, in source order, and
\* nothing else but filler.
CommentsEmittedOnceInOrder ==
    (InCloseBlock /\ OnlyCommentsAndFiller(snippet(cb.span))) =>
        LET sl == CommentCodeSlices(snippet(cb.span))
            n == Len(emitted)
        IN /\ n + Len(cb.slices) = Len(sl)
           /\ \A k \in 1..n : /\ emitted[k].kind = sl[k].kind
                              /\ emitted[k].offset = sl[k].offset
                              /\ emitted[k].text = sl[k].text
           /\ \A k \in 1..Len(cb.slices) : cb.slices[k] = sl[n + k]
           /\ CommentContent(SubSeq(buffer, Top.tail_at + 1, Len(buffer)))
                = CommentContent(HandledText)

\* close_block has handled a whole tail of comments and filler that holds at
\* least two comments, one re-wrapped and one left as it was.
CommentsEmittedWitness ==
    /\ InCloseBlock /\ cb.slices = <<>>
    /\ OnlyCommentsAndFiller(snippet(cb.span))
    /\ \E j, k \in CommentsHandled : j < k /\ emitted[j].rewrapped /\ ~emitted[k].rewrapped

\* C2: the indent level when visit_block returns is the level on entry, on
\* every path; between entry and return the level is one above the entry
\* level, or the entry level itself once close_block has unindented, never
\* lower.
IndentBalanced ==
    /\ ret.path # "none" => ret.exit_indent = ret.entry_indent
    /\ (stack # <<>> /\ Top.pc \in {"items", "close"}) =>
          block_indent = IF cb.unindented THEN Top.entry_indent
                         ELSE Top.entry_indent + TabSpaces
    /\ cb.unindented => InCloseBlock /\ cb.unindent_comment

\* A nested block has returned from close_block after its trailing comment
\* was emitted unindented.
IndentBalancedWitness ==
    /\ ret.path = "closed" /\ ret.depth = 2
    /\ is_if_else_block
    /\ \E k \in CommentsHandled : emitted[k].indent = ret.entry_indent

\* The block has no item, no inner attribute and no comment anywhere in its text.
NothingInside(b) ==
    /\ Len(b.items) = 0
    /\ (b.inner_attrs.some => Len(b.inner_attrs.v) = 0)
    /\ ~\E i \in 1..Len(b.text) : IsCommentOpener(b.text, i)

\* C3: visit_block returns along the empty path exactly for the blocks with
\* no item, no inner attribute and no comment in their span, and along a
\* non-empty path for all others.
EmptyPathIff ==
    ret.path # "none" =>
        /\ ret.path = "empty" <=> NothingInside(ret.b)
        /\ ret.path \in {"empty", "closed", "verbatim"}

\* A block with neither items nor attributes has gone through close_block
\* because of a comment in it.
EmptyPathWitness ==
    /\ ret.path = "closed"
    /\ ret.b.items = <<>> /\ ~ret.b.inner_attrs.some
    /\ CommentsHandled # {}

\* The output of the last returned visit_block call, and the output before it.
Rendered == SubSeq(buffer, ret.out_lo + 1, ret.out_hi)
Before == SubSeq(buffer, 1, ret.out_lo)

\* C4: an empty block is rendered `{}` exactly when its style is SingleLine
\* and the output line, the opening brace counted, is strictly narrower than
\* max_width; otherwise as `{`, a newline, the enclosing indentation, `}`.
EmptyBlockRendering ==
    ret.path = "empty" =>
        IF ret.b.empty_block_style = SingleLine
           /\ last_line_width(Before) + 1 < config.max_width
        THEN Rendered = <<"{", "}">>
        ELSE Rendered = <<"{", NL>> \o Spaces(ret.entry_indent) \o <<"}">>

\* A SingleLine empty block whose line is exactly max_width wide after the
\* opening brace has been broken over two lines.
EmptyBlockRenderingWitness ==
    /\ ret.path = "empty"
    /\ ret.b.empty_block_style = SingleLine
    /\ last_line_width(Before) + 1 = config.max_width
    /\ Rendered # <<"{", "}">>

\* The text `p` stands in the output right after position `at`.
OutputAt(at, p) == Len(buffer) >= at + Len(p) /\ SubSeq(buffer, at + 1, at + Len(p)) = p

\* The last slice before the k-th of the log that was not skipped (0: none).
LastKept(lg, k) ==
    LET kept == {j \in 1..(k - 1) : ~lg[j].skipped}
    IN IF kept = {} THEN 0 ELSE CHOOSE j \in kept : \A i \in kept : i <= j

\* The source text between the previously emitted slice (or the start of the
\* tail) and the k-th slice.
SourceGap(lg, k, tail) ==
    LET j == LastKept(lg, k)
        from == IF j = 0 THEN 0 ELSE lg[j].offset + Len(lg[j].text)
    IN SubSeq(tail, from + 1, lg[k].offset)

\* A skipped slice before the k-th one spans a newline and follows an emitted
\* slice that ended with a newline.
PendingBlankLine(lg, k) ==
    LET j == LastKept(lg, k)
    IN /\ j # 0
       /\ EndsWith(lg[j].text, NL)
       /\ \E i \in (j + 1)..(k - 1) : lg[i].skipped /\ Contains(lg[i].text, NL)

\* The comments close_block has put on a line of their own.
OnOwnLine == {k \in CommentsHandled : OutputAt(emitted[k].at, <<NL>>)}

OneBlankLineAt(at) == OutputAt(at, <<NL, NL>>) /\ ~OutputAt(at, <<NL, NL, NL>>)
NoBlankLineAt(at) == OutputAt(at, <<NL>>) /\ ~OutputAt(at, <<NL, NL>>)

WalkCalls == SelectSeq(calls, LAMBDA c : c.depth = 1 /\ c.op # "close_block")

IsUse(i) == root.items[i].kind = "use"

\* The maximal run of `use` items around item i: its first and last index.
RunFirst(i) == CHOOSE a \in 1..i :
    /\ \A j \in a..i : IsUse(j)
    /\ a = 1 \/ ~IsUse(a - 1)
RunLast(i) == CHOOSE z \in i..Len(root.items) :
    /\ \A j \in i..z : IsUse(j)
    /\ z = Len(root.items) \/ ~IsUse(z + 1)

\* All items of the root block, a block of statements, have been walked.
RootWalked ==
    /\ root.variant = "Stmt"
    /\ stack = <<>> \/ (Len(stack) = 1 /\ Top.pc = "close")

\* C6 (as amended): every maximal run of consecutive `use` statements, the
\* leading one and any later one, is handed to visit_items_with_reordering as
\* one unit of its own; every other statement is handed to visit_stmt alone;
\* the calls follow the order of the statements.
UseRunsGrouped ==
    RootWalked =>
        /\ \A i \in 1..Len(root.items) :
              IF IsUse(i)
              THEN Cardinality({k \in 1..Len(WalkCalls) :
                       /\ WalkCalls[k].op = "visit_items_with_reordering"
                       /\ WalkCalls[k].from = RunFirst(i)
                       /\ WalkCalls[k].from + WalkCalls[k].n - 1 = RunLast(i)}) = 1
              ELSE Cardinality({k \in 1..Len(WalkCalls) :
                       /\ WalkCalls[k].op = "visit_stmt"
                       /\ WalkCalls[k].from = i}) = 1
        /\ \A k \in 1..(Len(WalkCalls) - 1) :
              WalkCalls[k].from + WalkCalls[k].n = WalkCalls[k + 1].from
        /\ WalkCalls # <<>> => WalkCalls[1].from = 1

\* C6 (as stated): only the leading run goes to visit_items_with_reordering;
\* a `use` statement after another statement is handed to visit_stmt.
OnlyLeadingRunGrouped ==
    RootWalked =>
        \A k \in 1..Len(WalkCalls) :
            WalkCalls[k].op = "visit_items_with_reordering" => WalkCalls[k].from = 1

\* [use; use; stmt; use] has been walked.
UseRunsGroupedWitness ==
    /\ RootWalked
    /\ Len(root.items) = 4
    /\ IsUse(1) /\ IsUse(2) /\ ~IsUse(3) /\ IsUse(4)
    /\ Len(WalkCalls) = 3

RestSpan == mk_sp(ret.rest.lo, ret.span.hi)

\* A line filter is set and holds no line of the span.
OutsideFilter(span) ==
    /\ ~config.file_lines.all
    /\ \A l \in config.file_lines.lines :
          l < 1 + count_newlines(SubSeq(src, 1, span.lo))
          \/ l > 1 + count_newlines(SubSeq(src, 1, span.hi))

ClosedCalls ==
    {k \in 1..Len(calls) : calls[k].op = "close_block" /\ calls[k].depth = ret.depth}

\* C8: when the rest of a non-empty block lies outside the line filter,
\* visit_block has appended its source text unchanged, is back at the indent
\* level of its entry and has not called close_block; otherwise it has called
\* close_block once, on the rest without the closing brace.
VerbatimOutsideFilter ==
    (ret.path \in {"closed", "verbatim"} /\ ret.depth = 1) =>
        /\ Len(ret.b.items) > 0 =>
              ret.rest.lo = ret.span.lo + ret.b.items[Len(ret.b.items)].hi
        /\ IF OutsideFilter(RestSpan)
           THEN /\ ret.path = "verbatim"
                /\ SubSeq(buffer, ret.tail_at + 1, ret.out_hi)
                     = SubSeq(src, RestSpan.lo + 1, RestSpan.hi)
                /\ ret.exit_indent = ret.entry_indent
                /\ ClosedCalls = {}
                /\ emitted = <<>>
           ELSE /\ ret.path = "closed"
                /\ ret.rest.hi = ret.span.hi - 1
                /\ \E k \in ClosedCalls :
                      /\ ClosedCalls = {k}
                      /\ calls[k].from = ret.rest.lo
                      /\ calls[k].n = ret.rest.hi

\* A rest with a comment in it has been copied.
VerbatimOutsideFilterWitness ==
    /\ ret.path = "verbatim"
    /\ contains_comment(SubSeq(src, RestSpan.lo + 1, RestSpan.hi))
    /\ Trim(SubSeq(src, RestSpan.lo + 1, RestSpan.hi)) # SubSeq(src, RestSpan.lo + 1, RestSpan.hi)

\* Where the output for the k-th slice of the log ends.
OutEnd(lg, k, end) == IF k < Len(lg) THEN lg[k + 1].at ELSE end

\* The k-th slice of the log stands in the output as it is in the source.
Unmodified(lg, k, end, tail) ==
    LET text == SubSeq(tail, lg[k].offset + 1, lg[k].offset + Len(lg[k].text))
        to == OutEnd(lg, k, end)
    IN /\ to - Len(text) >= lg[k].at
       /\ SubSeq(buffer, to - Len(text) + 1, to) = text

\* C9: a comment the re-wrapper returned None for stands in the output
\* unmodified; close_block goes on to the remaining slices, and the block it
\* returns from has all its slices handled and ends with the closing brace on
\* a line of its own.
RewrapFailureRecovered ==
    /\ InCloseBlock =>
          \A k \in CommentsHandled :
              (config.rewriter = "never" \/ ~emitted[k].rewrapped)
                  => Unmodified(emitted, k, Len(buffer), snippet(cb.span))
    /\ ret.path = "closed" =>
          /\ Len(ret.log) = Len(CommentCodeSlices(snippet(ret.rest)))
          /\ \A k \in 1..Len(ret.log) :
                (ret.log[k].kind = Comment /\ config.rewriter = "never")
                    => Unmodified(ret.log, k, ret.out_hi - 1 - (1 + ret.entry_indent),
                                  snippet(ret.rest))
          /\ OutputAt(ret.out_hi - 1 - (1 + ret.entry_indent),
                      <<NL>> \o Spaces(ret.entry_indent) \o <<"}">>)

\* A block has returned after the re-wrapper failed on the first of two
\* comments, a line comment.
RewrapFailureWitness ==
    /\ ret.path = "closed"
    /\ \E j, k \in 1..Len(ret.log) :
          /\ j < k
          /\ ret.log[j].kind = Comment /\ ~ret.log[j].rewrapped
          /\ EndsWith(ret.log[j].text, NL)
          /\ ret.log[k].kind = Comment

\* The texts of the slices sl, concatenated.
SliceTexts(sl) == Flatten([k \in 1..Len(sl) |-> sl[k].text])

\* The slices reconstruct `text`: in order, each at the offset where the ones
\* before it end, none empty, and together the whole text.
Reconstructs(sl, text) ==
    /\ SliceTexts(sl) = text
    /\ \A k \in 1..Len(sl) :
          /\ sl[k].offset = Len(SliceTexts(SubSeq(sl, 1, k - 1)))
          /\ sl[k].kind \in {Comment, Normal}
          /\ sl[k].text # <<>>

blockvars == <<src, root, config, buffer, last_pos, block_indent, is_if_else_block,
               stack, cb, calls, emitted, ret>>

BlockIdle ==
    /\ src = <<>>
    /\ root = MkBlock("Stmt", MultiLine, 0, <<>>, <<>>, <<>>)
    /\ config = Config(WideWidth, FALSE, FileLinesAll, "always")
    /\ buffer = <<>>
    /\ last_pos = 0
    /\ block_indent = 0
    /\ is_if_else_block = FALSE
    /\ stack = <<>>
    /\ cb = NoCall
    /\ calls = <<>>
    /\ emitted = <<>>
    /\ ret = NoRet

\* -------------------------------------------------------- NewlineStyle

\* Longest raw input text and longest formatted text, in characters.
MaxRaw == 4
MaxFormatted == 2

CR == "\r"
\* A character whose UTF-8 encoding takes two bytes, and one that takes one.
WideChar == "W"
PlainChar == "a"

\* char::len_utf8
len_utf8(c) == IF c = WideChar THEN 2 ELSE 1

\* The length of a text in bytes.
RECURSIVE ByteLen(_)
ByteLen(text) == IF text = <<>> THEN 0 ELSE len_utf8(Head(text)) + ByteLen(Tail(text))

\* str::find(c): the byte offset of the first c, None when there is none.
Find(text, c) ==
    IF ~Contains(text, c) THEN None
    ELSE LET k == CHOOSE i \in 1..Len(text) : text[i] = c /\ \A j \in 1..(i - 1) : text[j] # c
         IN Some(ByteLen(SubSeq(text, 1, k - 1)))

\* str::chars().nth(n): the n-th character, counted from 0.
CharsNth(text, n) == IF n < Len(text) THEN Some(text[n + 1]) ELSE None

\* enum NewlineStyle
Auto == "Auto"
Windows == "Windows"
Unix == "Unix"
Native == "Native"
NewlineStyles == {Auto, Windows, Unix, Native}

\* NewlineStyle::auto_detect
auto_detect(raw_input_text) ==
    IF Find(raw_input_text, NL).some
    THEN LET pos == SatSub(Find(raw_input_text, NL).v, 1)
         IN IF CharsNth(raw_input_text, pos) = Some(CR) THEN Windows ELSE Unix
    ELSE Native

\* NewlineStyle::native, on a build for Windows or for another platform
native(windows) == IF windows THEN Windows ELSE Unix

\* NewlineStyle::apply, the Windows arm: the text with every line feed made
\* a carriage return and a line feed, the carriage returns it had dropped.
RECURSIVE Transformed(_)
Transformed(formatted_text) ==
    IF formatted_text = <<>> THEN <<>>
    ELSE (IF Head(formatted_text) = NL THEN <<CR, NL>>
          ELSE IF Head(formatted_text) = CR THEN <<>>
          ELSE <<Head(formatted_text)>>)
         \o Transformed(Tail(formatted_text))

\* NewlineStyle::apply: the style the match is made on
EffectiveStyle(style, raw_input_text, windows) ==
    LET detected == IF style = Auto THEN auto_detect(raw_input_text) ELSE style
    IN IF detected = Native THEN native(windows) ELSE detected

\* NewlineStyle::apply: the formatted text afterwards, and whether one of the
\* unreachable! arms was entered
apply(style, formatted_text, raw_input_text, windows) ==
    LET effective == EffectiveStyle(style, raw_input_text, windows)
    IN [text |-> IF effective = Windows THEN Transformed(formatted_text) ELSE formatted_text,
        panicked |-> effective \in {Native, Auto}]

RawTexts == SeqUpTo({PlainChar, WideChar, CR, NL}, MaxRaw)
FormattedTexts == SeqUpTo({PlainChar, CR, NL}, MaxFormatted)

\* A call of auto_detect or of apply is about to be made.
NewlineInit ==
    /\ BlockIdle
    /\ \E style \in NewlineStyles, formatted \in FormattedTexts, raw \in RawTexts,
          windows \in BOOLEAN :
          input = [fn |-> "newline", style |-> style, formatted_text |-> formatted,
                   raw_input_text |-> raw, windows |-> windows]
    /\ output = NoOutput

\* NewlineStyle::auto_detect(raw_input_text)
AutoDetect ==
    /\ input.fn = "newline" /\ ~output.done
    /\ output' = [done |-> TRUE, fn |-> "auto_detect",
                  style |-> auto_detect(input.raw_input_text)]
    /\ UNCHANGED <<input, blockvars>>

\* style.apply(&mut formatted_text, raw_input_text)
Apply ==
    /\ input.fn = "newline" /\ ~output.done
    /\ LET r == apply(input.style, input.formatted_text, input.raw_input_text, input.windows)
       IN output' = [done |-> TRUE, fn |-> "apply", formatted_text |-> r.text,
                     panicked |-> r.panicked]
    /\ UNCHANGED <<input, blockvars>>

NewlineNext == AutoDetect \/ Apply

NewlineSpec == NewlineInit /\ [][NewlineNext]_vars

\* The first line feed of the text is right after a carriage return.
FirstLineFeedAfterCR(text) ==
    \E i \in 2..Len(text) :
        text[i] = NL /\ text[i - 1] = CR /\ \A j \in 1..(i - 1) : text[j] # NL

\* Every character of the text takes one byte.
IsAscii(text) == \A i \in 1..Len(text) : len_utf8(text[i]) = 1

AutoDetected == output.done /\ output.fn = "auto_detect"

\* C12: auto_detect returns Windows when the first line feed of the text is
\* right after a carriage return, Unix when the text has a line feed and the
\* first one is not, Native when the text has no line feed.
AutoDetectByFirstLineFeed ==
    AutoDetected =>
        output.style = IF ~Contains(input.raw_input_text, NL) THEN Native
                       ELSE IF FirstLineFeedAfterCR(input.raw_input_text) THEN Windows
                       ELSE Unix

\* C12 for texts of one-byte characters only.
AutoDetectAscii ==
    (AutoDetected /\ IsAscii(input.raw_input_text)) =>
        output.style = IF ~Contains(input.raw_input_text, NL) THEN Native
                       ELSE IF FirstLineFeedAfterCR(input.raw_input_text) THEN Windows
                       ELSE Unix

\* auto_detect has been called on a text whose only line feed is right after a
\* carriage return and a two-byte character, and has returned Unix.
AutoDetectWitness ==
    /\ AutoDetected
    /\ input.raw_input_text = <<WideChar, CR, NL>>
    /\ output.style = Unix

\* `to` is `from` with every line feed made a carriage return and a line feed.
RECURSIVE EveryLineFeedCRLF(_, _)
EveryLineFeedCRLF(from, to) ==
    IF from = <<>> THEN ~Contains(to, NL)
    ELSE IF Head(from) = NL
    THEN \E k \in 2..Len(to) :
            /\ to[k] = NL /\ to[k - 1] = CR
            /\ ~Contains(SubSeq(to, 1, k - 1), NL)
            /\ EveryLineFeedCRLF(Tail(from), SubSeq(to, k + 1, Len(to)))
    ELSE EveryLineFeedCRLF(Tail(from), to)

Applied == output.done /\ output.fn = "apply"

\* What apply with style Auto is to do for the raw input.
AutoApplied(raw) ==
    IF ~Contains(raw, NL)
    THEN IF input.windows
         THEN EveryLineFeedCRLF(input.formatted_text, output.formatted_text)
         ELSE output.formatted_text = input.formatted_text
    ELSE IF FirstLineFeedAfterCR(raw)
    THEN EveryLineFeedCRLF(input.formatted_text, output.formatted_text)
    ELSE output.formatted_text = input.formatted_text

\* C13: apply with style Auto leaves the formatted text as it is when the raw
\* input uses LF, makes every line feed of it a CRLF when the raw input uses
\* CRLF, and follows the platform when the raw input has no line feed; no
\* style and no input brings apply to one of its unreachable arms.
AutoApplyFollowsRawInput ==
    Applied =>
        /\ ~output.panicked
        /\ input.style = Auto => AutoApplied(input.raw_input_text)

\* C13 for raw inputs of one-byte characters only.
AutoApplyAscii ==
    (Applied /\ IsAscii(input.raw_input_text)) =>
        /\ ~output.panicked
        /\ input.style = Auto => AutoApplied(input.raw_input_text)

\* apply with style Auto has left a formatted text with a line feed as it was
\* although the raw input's only line feed is right after a carriage return.
AutoApplyWitness ==
    /\ Applied /\ input.style = Auto
    /\ input.raw_input_text = <<WideChar, CR, NL>>
    /\ input.formatted_text = <<PlainChar, NL>>
    /\ output.formatted_text = input.formatted_text

\* ----------------------------------------------- ConfigOptionAttribute

\* Longest list of items inside #[config_option(...)].
MaxNested == 3

\* Version::from_str: the strings that are semantic versions
Versions == {"1.0.0", "1.2.0"}
VersionFromStr(str) == IF str \in Versions THEN Some(str) ELSE None

\* syn::NestedMeta: `name = "value"`, `name = 1` (a literal that is no
\* string), and `name(...)`
StrValue(ident, value) == [kind |-> "NameValue", ident |-> ident, str |-> TRUE, value |-> value]
IntValue(ident) == [kind |-> "NameValue", ident |-> ident, str |-> FALSE, value |-> ""]
MetaList(ident, nested) == [kind |-> "List", ident |-> ident, nested |-> nested]
MetaWord(ident) == [kind |-> "Word", ident |-> ident]

\* extract_str_value
extract_str_value(meta, name) ==
    IF meta.kind = "NameValue" /\ meta.str /\ meta.ident = name THEN Some(meta.value) ELSE None

\* find_map_meta_list: f is given as the sequence of its results on the items
FindMap(results) ==
    IF \E i \in 1..Len(results) : results[i].some
    THEN results[CHOOSE i \in 1..Len(results) :
                     results[i].some /\ \A j \in 1..(i - 1) : ~results[j].some]
    ELSE None

\* extract_default
extract_default(meta) == extract_str_value(meta, "default")

\* extract_stable
extract_stable(meta) ==
    IF extract_str_value(meta, "stable").some
    THEN VersionFromStr(extract_str_value(meta, "stable").v) ELSE None

\* extract_version
extract_version(meta) ==
    IF extract_str_value(meta, "version").some
    THEN VersionFromStr(extract_str_value(meta, "version").v) ELSE None

\* extract_alternative
extract_alternative(meta) == extract_str_value(meta, "alternative")

\* extract_deprecated
extract_deprecated(meta) ==
    IF meta.kind = "List" /\ meta.ident = "deprecated"
    THEN LET version == FindMap([i \in 1..Len(meta.nested) |-> extract_version(meta.nested[i])])
             alternative == FindMap([i \in 1..Len(meta.nested) |-> extract_alternative(meta.nested[i])])
         IN IF version.some /\ alternative.some THEN Some(<<version.v, alternative.v>>) ELSE None
    ELSE None

Ok(v) == [ok |-> TRUE, v |-> v]
Err(e) == [ok |-> FALSE, e |-> e]

\* try_from were an attribute with both a stable version and a deprecated
\* entry let through.
try_from_accepting_both(attrs) ==
    LET found == {i \in 1..Len(attrs) : attrs[i].kind = "List" /\ attrs[i].ident = "config_option"}
    IN IF found = {} THEN Err("NotFound")
       ELSE LET meta_list == attrs[CHOOSE i \in found : \A j \in found : i <= j]
                n == Len(meta_list.nested)
                default_value == FindMap([i \in 1..n |-> extract_default(meta_list.nested[i])])
                stable == FindMap([i \in 1..n |-> extract_stable(meta_list.nested[i])])
                deprecated == FindMap([i \in 1..n |-> extract_deprecated(meta_list.nested[i])])
            IN IF ~default_value.some THEN Err("Invalid")
               ELSE Ok([default_value |-> default_value.v, stable |-> stable,
                        deprecated |-> deprecated])

\* <ConfigOptionAttribute as TryFrom<&[syn::Attribute]>>::try_from; an
\* attribute is given as the meta it is interpreted as.
try_from(attrs) ==
    LET found == {i \in 1..Len(attrs) : attrs[i].kind = "List" /\ attrs[i].ident = "config_option"}
    IN IF found = {} THEN Err("NotFound")
       ELSE LET meta_list == attrs[CHOOSE i \in found : \A j \in found : i <= j]
                n == Len(meta_list.nested)
                default_value == FindMap([i \in 1..n |-> extract_default(meta_list.nested[i])])
                stable == FindMap([i \in 1..n |-> extract_stable(meta_list.nested[i])])
                deprecated == FindMap([i \in 1..n |-> extract_deprecated(meta_list.nested[i])])
            IN IF ~default_value.some THEN Err("Invalid")
               ELSE IF stable.some /\ deprecated.some THEN Err("Invalid")
               ELSE Ok([default_value |-> default_value.v, stable |-> stable,
                        deprecated |-> deprecated])

\* The items tried inside #[config_option(...)].
GoodDeprecated ==
    MetaList("deprecated", <<StrValue("version", "1.2.0"), StrValue("alternative", "other")>>)
NestedItems ==
    {StrValue("default", "100"), IntValue("default"),
     StrValue("stable", "1.0.0"), StrValue("stable", "soon"),
     GoodDeprecated,
     MetaList("deprecated", <<StrValue("alternative", "other"), StrValue("version", "soon")>>),
     MetaList("deprecated", <<StrValue("version", "1.2.0")>>),
     MetaWord("hidden")}

\* The attributes of a field: an optional other attribute, then
\* #[config_option(...)] or the bare word #[config_option].
ConfigOptionInit ==
    /\ BlockIdle
    /\ \E nested \in SeqUpTo(NestedItems, MaxNested),
          before \in {<<>>, <<StrValue("doc", " text")>>, <<MetaList("derive", <<>>)>>},
          bare \in BOOLEAN :
          input = [fn |-> "try_from",
                   attrs |-> before \o <<IF bare /\ nested = <<>> THEN MetaWord("config_option")
                                         ELSE MetaList("config_option", nested)>>]
    /\ output = NoOutput

\* ConfigOptionAttribute::try_from(field.attrs.as_slice())
TryFrom ==
    /\ input.fn = "try_from" /\ ~output.done
    /\ output' = [done |-> TRUE, result |-> try_from(input.attrs)]
    /\ UNCHANGED <<input, blockvars>>

ConfigOptionNext == TryFrom

ConfigOptionSpec == ConfigOptionInit /\ [][ConfigOptionNext]_vars

\* The items of the first #[config_option(...)] of the field (none: <<>>).
ConfigOptionItems ==
    LET found == {i \in 1..Len(input.attrs) :
                    input.attrs[i].kind = "List" /\ input.attrs[i].ident = "config_option"}
    IN IF found = {} THEN <<>> ELSE input.attrs[CHOOSE i \in found : \A j \in found : i <= j].nested

\* The attribute carries exactly one of each: default = "100", a valid stable
\* version and a valid deprecated(version, alternative).
CarriesAllThree ==
    LET items == ConfigOptionItems
    IN /\ Len(items) = 3
       /\ {items[i] : i \in 1..3}
            = {StrValue("default", "100"), StrValue("stable", "1.0.0"), GoodDeprecated}

\* C14: try_from on a field whose config_option attribute carries a default, a
\* valid stable version and a valid deprecated(version, alternative) succeeds,
\* and the result holds the three as written.
ConfigOptionAllThree ==
    (output.done /\ CarriesAllThree) =>
        /\ output.result.ok
        /\ output.result.v.default_value = "100"
        /\ output.result.v.stable = Some("1.0.0")
        /\ output.result.v.deprecated = Some(<<"1.2.0", "other">>)

\* try_from has returned Invalid for the attribute of the test, stable first,
\* then default, then deprecated.
ConfigOptionWitness ==
    /\ output.done
    /\ ConfigOptionItems
         = <<StrValue("stable", "1.0.0"), StrValue("default", "100"), GoodDeprecated>>
    /\ output.result = Err("Invalid")

\* ------------------------------------------------------------ DocComment

\* Most blank lines between two parts of a doc comment, and most `#####`
\* sections of one.
MaxBlank == 2
MaxOutputs == 2

\* A line is a sequence of tokens: `#`, a space, a code fence and words are
\* tokens of their own, so that a prefix test is a test on leading tokens.
Hash == <<"#">>
\* The three backquotes of a code fence, one token.
Fence == <<"fence">>

\* str::starts_with
starts_with(line, prefix) ==
    Len(line) >= Len(prefix) /\ SubSeq(line, 1, Len(prefix)) = prefix

\* str::trim_start_matches: every leading repetition of the prefix removed
RECURSIVE trim_start_matches(_, _)
trim_start_matches(line, prefix) ==
    IF starts_with(line, prefix)
    THEN trim_start_matches(SubSeq(line, Len(prefix) + 1, Len(line)), prefix)
    ELSE line

\* Itertools::join("\n") over lines
RECURSIVE JoinNL(_)
JoinNL(ls) ==
    IF ls = <<>> THEN <<>>
    ELSE IF Len(ls) = 1 THEN ls[1]
    ELSE ls[1] \o <<NL>> \o JoinNL(Tail(ls))

\* take_while_ref(|s| !s.starts_with(prefix)) run to its end from line `pos`
\* on: the index of the first line from there that starts with the prefix,
\* which is not consumed; past the end when there is none.
SkipTo(lines, pos, prefix) ==
    LET hits == {i \in pos..Len(lines) : starts_with(lines[i], prefix)}
    IN IF hits = {} THEN Len(lines) + 1 ELSE CHOOSE i \in hits : \A j \in hits : i <= j

\* The section markers
ExampleMarker == <<"#", "#", "#", SP, "Example">>
InputMarker == <<"#", "#", "#", "#", SP, "Input">>
OutputMarker == <<"#", "#", "#", "#", SP, "Output">>
ValueMarker == <<"#", "#", "#", "#", "#", SP>>

\* skip_until_next_header: the index of the next line to read
skip_until_next_header(lines, pos) == SkipTo(lines, pos, Hash)

\* take_code_block from line `pos` on: the body and the next line to read, or
\* MissingCodeBlock
take_code_block(lines, pos) ==
    LET open == SkipTo(lines, pos, Fence)
        close == SkipTo(lines, open + 1, Fence)
    IN IF open > Len(lines) THEN Err(<<"MissingCodeBlock">>)
       ELSE [ok |-> TRUE, v |-> JoinNL(SubSeq(lines, open + 1, close - 1)),
             pos |-> IF close > Len(lines) THEN close ELSE close + 1]

InvalidFormat(expected, found) == Err(<<"InvalidFormat", expected, found>>)

\* DocComment::from_str, the loop over the `#####` sections from line `pos`
\* on, `collected` being the output vector so far
RECURSIVE OptionValues(_, _, _)
OptionValues(lines, pos, collected) ==
    IF pos > Len(lines) THEN Ok(collected)
    ELSE IF ~starts_with(lines[pos], ValueMarker)
    THEN InvalidFormat(ValueMarker, lines[pos])
    ELSE LET option_value == trim_start_matches(lines[pos], ValueMarker)
             code_block == take_code_block(lines, pos + 1)
         IN IF ~code_block.ok THEN code_block
            ELSE OptionValues(lines, skip_until_next_header(lines, code_block.pos),
                              Append(collected, <<option_value, code_block.v>>))

\* DocComment::from_str, from `#### Input` on
FromInput(lines, description, pos) ==
    IF pos > Len(lines) THEN Err(<<"MissingInput">>)
    ELSE IF lines[pos] # InputMarker THEN InvalidFormat(InputMarker, lines[pos])
    ELSE LET in == take_code_block(lines, pos + 1)
             at == skip_until_next_header(lines, in.pos)
         IN IF ~in.ok THEN in
            ELSE IF at > Len(lines) THEN Err(<<"MissingOutput">>)
            ELSE IF lines[at] # OutputMarker THEN Err(<<"MissingOutput">>)
            ELSE LET out == OptionValues(lines, skip_until_next_header(lines, at + 1), <<>>)
                 IN IF ~out.ok THEN out
                    ELSE IF out.v = <<>> THEN Err(<<"MissingOutput">>)
                    ELSE Ok([description |-> description,
                             example |-> [input |-> in.v, output |-> out.v]])

\* DocComment::from_str on the lines of the string
from_str(lines) ==
    LET first == SkipTo(lines, 1, Hash)
        description == Trim(JoinNL(SubSeq(lines, 1, first - 1)))
    IN IF first > Len(lines) THEN Err(<<"MissingExample">>)
       ELSE IF lines[first] # ExampleMarker THEN InvalidFormat(ExampleMarker, lines[first])
       ELSE IF description = <<>> THEN Err(<<"MissingDescription">>)
       ELSE FromInput(lines, description, skip_until_next_header(lines, first + 1))

\* The lines doc comments are made of.
Blank == <<>>
DescriptionLine == <<"A", SP, "description.">>
IndentedLine == <<SP, SP, "more.">>
CodeLine == <<"fn", SP, "main()", SP, "{}">>
AttrLine == <<"#", "[test]">>
OpenFence == {Fence, Fence \o <<"rust">>}
OtherHeaders == {<<"#", "#", SP, "Notes">>, <<"#", "#", "#", "#", SP, "Outputs">>,
                 <<"#", "#", "#", "#", "#", "v">>}

Blanks(n) == [i \in 1..n |-> Blank]

Descriptions == {<<DescriptionLine>>, <<DescriptionLine, Blank, IndentedLine>>,
                 <<Blank, DescriptionLine>>}
Bodies == {<<>>, <<CodeLine>>, <<CodeLine, AttrLine, Blank, CodeLine>>}
OptionValueTexts == {<<"Option", SP, "value", SP, "1">>, <<"Never">>,
                     ValueMarker \o <<"Never">>}

CodeBlock(fence, body) == <<fence>> \o body \o <<Fence>>

\* The `#####` sections for the (option value, body) pairs, g blank lines
\* before each code block and after it.
RECURSIVE Sections(_, _)
Sections(pairs, g) ==
    IF pairs = <<>> THEN <<>>
    ELSE <<ValueMarker \o Head(pairs)[1]>> \o Blanks(g) \o CodeBlock(Fence, Head(pairs)[2])
         \o Blanks(g) \o Sections(Tail(pairs), g)

\* A doc comment laid out as the parser expects it: g blank lines between the
\* parts, h more after the last one.
Document(description, g, h, fence, body, pairs) ==
    description \o Blanks(g) \o <<ExampleMarker>> \o Blanks(g) \o <<InputMarker>> \o Blanks(g)
    \o CodeBlock(fence, body) \o Blanks(g) \o <<OutputMarker>> \o Blanks(g)
    \o Sections(pairs, g) \o Blanks(h)

OutputPairs == {p \in SeqUpTo(OptionValueTexts \X {<<>>, <<CodeLine>>}, MaxOutputs) : p # <<>>}

\* The document with line k (if any) replaced, cut after n lines.
Damaged(doc, k, line, n) ==
    SubSeq([i \in 1..Len(doc) |-> IF i = k THEN line ELSE doc[i]], 1, n)

\* Well laid out doc comments of every shape.
DocInitWell ==
    \E description \in Descriptions, g \in 0..MaxBlank, h \in 0..MaxBlank, fence \in OpenFence,
       body \in Bodies, pairs \in OutputPairs :
        input = [fn |-> "from_str", well |-> TRUE,
                 lines |-> Document(description, g, h, fence, body, pairs),
                 description |-> description, body |-> body, pairs |-> pairs]

\* Doc comments with one line replaced by another header, or cut short.
DocInitDamaged ==
    \E g \in 0..1, pairs \in {p \in OutputPairs : \A i \in 1..Len(p) : p[i] = <<<<"Never">>, <<CodeLine>>>>},
       line \in OtherHeaders :
        LET doc == Document(<<DescriptionLine>>, g, 0, Fence, <<CodeLine>>, pairs)
        IN \E k \in 0..Len(doc), n \in 0..Len(doc) :
              input = [fn |-> "from_str", well |-> FALSE,
                       lines |-> Damaged(doc, k, line, n),
                       description |-> <<DescriptionLine>>, body |-> <<CodeLine>>, pairs |-> pairs]

DocInit == BlockIdle /\ output = NoOutput /\ (DocInitWell \/ DocInitDamaged)

\* DocComment::from_str(&doc_comment)
FromStr ==
    /\ input.fn = "from_str" /\ ~output.done
    /\ output' = [done |-> TRUE, result |-> from_str(input.lines)]
    /\ UNCHANGED <<input, blockvars>>

DocNext == FromStr

DocSpec == DocInit /\ [][DocNext]_vars

\* C15: from_str on a doc comment laid out as description, `### Example`,
\* `#### Input` and a code block, `#### Output`, then `##### <value>` headers
\* each with a code block, succeeds; the description is the trimmed text before
\* the first header, the input the body of the first code block, the outputs
\* the (option value, body) pairs in order.
DocCommentParsed ==
    (output.done /\ input.well) =>
        /\ output.result.ok
        /\ output.result.v.description = Trim(JoinNL(input.description))
        /\ output.result.v.example.input = JoinNL(input.body)
        /\ output.result.v.example.output
             = [i \in 1..Len(input.pairs) |-> <<input.pairs[i][1], JoinNL(input.pairs[i][2])>>]

\* No option value of the doc comment starts with the marker `##### ` itself.
PlainOptionValues ==
    \A i \in 1..Len(input.pairs) : ~starts_with(input.pairs[i][1], ValueMarker)

\* C15 for option values that do not start with `##### `.
DocCommentParsedPlainValues ==
    (output.done /\ input.well /\ PlainOptionValues) =>
        /\ output.result.ok
        /\ output.result.v.description = Trim(JoinNL(input.description))
        /\ output.result.v.example.input = JoinNL(input.body)
        /\ output.result.v.example.output
             = [i \in 1..Len(input.pairs) |-> <<input.pairs[i][1], JoinNL(input.pairs[i][2])>>]

\* from_str has parsed a doc comment with two sections, the second for the
\* option value `##### Never`, and has returned `Never` for it.
DocCommentParsedWitness ==
    /\ output.done /\ input.well
    /\ Len(input.pairs) = 2
    /\ input.pairs[2][1] = ValueMarker \o <<"Never">>
    /\ output.result.ok
    /\ output.result.v.example.output[2][1] = <<"Never">>

\* Where from_str expects each marker in the lines it was given: the line it
\* reads for `### Example`, for `#### Input`, for `#### Output` and for the
\* first `##### ` header, each meaningful when the parse got that far.
ExampleAt == SkipTo(input.lines, 1, Hash)
InputAt == skip_until_next_header(input.lines, ExampleAt + 1)
InputBlock == take_code_block(input.lines, InputAt + 1)
OutputMarkerAt == skip_until_next_header(input.lines, InputBlock.pos)
ValueAt == skip_until_next_header(input.lines, OutputMarkerAt + 1)

Ended(at) == at > Len(input.lines)
ExampleRead == ~Ended(ExampleAt) /\ input.lines[ExampleAt] = ExampleMarker
                 /\ Trim(JoinNL(SubSeq(input.lines, 1, ExampleAt - 1))) # <<>>
InputRead == ExampleRead /\ ~Ended(InputAt) /\ input.lines[InputAt] = InputMarker /\ InputBlock.ok
OutputRead == InputRead /\ ~Ended(OutputMarkerAt) /\ input.lines[OutputMarkerAt] = OutputMarker

\* The `### Example` and `#### Input` markers: a different header where the
\* marker is expected gives InvalidFormat with the marker and the line found,
\* and the section is reported missing only at the end of the input.
ExampleAndInputMarkerErrors ==
    /\ (~Ended(ExampleAt) /\ input.lines[ExampleAt] # ExampleMarker)
          => output.result = InvalidFormat(ExampleMarker, input.lines[ExampleAt])
    /\ output.result = Err(<<"MissingExample">>) => Ended(ExampleAt)
    /\ (ExampleRead /\ ~Ended(InputAt) /\ input.lines[InputAt] # InputMarker)
          => output.result = InvalidFormat(InputMarker, input.lines[InputAt])
    /\ output.result = Err(<<"MissingInput">>) => ExampleRead /\ Ended(InputAt)

\* The first `##### ` header: a different header there gives InvalidFormat.
ValueMarkerErrors ==
    (OutputRead /\ ~Ended(ValueAt) /\ ~starts_with(input.lines[ValueAt], ValueMarker))
        => output.result = InvalidFormat(ValueMarker, input.lines[ValueAt])

\* C16: whenever from_str expects a section marker and the next header line is
\* a different text it returns InvalidFormat with the expected marker and the
\* line found; MissingExample, MissingInput and MissingOutput are returned only
\* when the input ends before the marker.
MarkerErrorsExpectedFound ==
    output.done =>
        /\ ExampleAndInputMarkerErrors
        /\ ValueMarkerErrors
        /\ (InputRead /\ ~Ended(OutputMarkerAt) /\ input.lines[OutputMarkerAt] # OutputMarker)
              => output.result = InvalidFormat(OutputMarker, input.lines[OutputMarkerAt])
        /\ output.result = Err(<<"MissingOutput">>)
              => InputRead /\ (Ended(OutputMarkerAt) \/ (OutputRead /\ Ended(ValueAt)))

\* C16 for the markers other than `#### Output`.
MarkerErrorsOtherThanOutput ==
    output.done => ExampleAndInputMarkerErrors /\ ValueMarkerErrors

\* from_str has met another header where it expected `#### Output` and has
\* returned MissingOutput.
MissingOutputOnOtherHeader ==
    /\ output.done /\ InputRead
    /\ ~Ended(OutputMarkerAt) /\ input.lines[OutputMarkerAt] # OutputMarker
    /\ output.result = Err(<<"MissingOutput">>)

\* ------------------------------------------------- filter_doc_comments

MaxAttrs == 3

\* An attribute is what interpret_meta makes of it, or None when it has no
\* meaning as a meta item.
NameValue(ident, lit) == Some([meta |-> "NameValue", ident |-> ident, lit |-> lit])
LitStr(text) == [lit |-> "Str", value |-> text]
LitInt == [lit |-> "Int"]
DocTexts == {<<>>, <<"first", SP, "line.">>, <<SP, "first", SP, "line.">>, <<SP, SP, "indented">>}
Attributes ==
    {NameValue("doc", LitStr(t)) : t \in DocTexts}
    \cup {NameValue("doc", LitInt), NameValue("path", LitStr(<<SP, "lib.rs">>)),
          Some([meta |-> "Word", ident |-> "hello"]), Some([meta |-> "List", ident |-> "doc"]),
          None}

\* attr_to_doc_text with every leading space removed
attr_to_doc_text_trimmed(attr) ==
    IF attr.some /\ attr.v.meta = "NameValue" /\ attr.v.ident = "doc" /\ attr.v.lit.lit = "Str"
    THEN Some(TrimStart(attr.v.lit.value))
    ELSE None

\* attr_to_doc_text(attr)
attr_to_doc_text(attr) ==
    IF ~attr.some THEN None
    ELSE IF attr.v.meta = "NameValue" /\ attr.v.ident = "doc"
    THEN IF attr.v.lit.lit = "Str"
         THEN LET s == attr.v.lit.value
              IN Some(IF starts_with(s, <<SP>>) THEN Tail(s) ELSE s)
         ELSE None
    ELSE None

\* Iterator::filter_map over the attributes
RECURSIVE FilterMap(_)
FilterMap(attrs) ==
    IF attrs = <<>> THEN <<>>
    ELSE LET text == attr_to_doc_text(Head(attrs))
         IN (IF text.some THEN <<text.v>> ELSE <<>>) \o FilterMap(Tail(attrs))

\* filter_doc_comments(attrs)
filter_doc_comments(attrs) == JoinNL(FilterMap(attrs))

\* The attributes of an item are about to be given to filter_doc_comments.
DocAttrsInit ==
    /\ BlockIdle
    /\ \E attrs \in SeqUpTo(Attributes, MaxAttrs) : input = [fn |-> "filter_doc_comments", attrs |-> attrs]
    /\ output = NoOutput

\* filter_doc_comments(&input.attrs)
FilterDocComments ==
    /\ input.fn = "filter_doc_comments" /\ ~output.done
    /\ output' = [done |-> TRUE, doc_comments |-> filter_doc_comments(input.attrs)]
    /\ UNCHANGED <<input, blockvars>>

DocAttrsNext == FilterDocComments

DocAttrsSpec == DocAttrsInit /\ [][DocAttrsNext]_vars

IsDocString(attr) ==
    attr.some /\ attr.v.meta = "NameValue" /\ attr.v.ident = "doc" /\ attr.v.lit.lit = "Str"
DocStrings == SelectSeq(input.attrs, IsDocString)
WithoutOneLeadingSpace(text) == IF text # <<>> /\ Head(text) = SP THEN Tail(text) ELSE text

\* C17: the result of filter_doc_comments is the texts of the doc string
\* attributes, in attribute order, each less one leading space if it has one,
\* with a single newline between two of them; the other attributes add nothing.
DocCommentsJoined ==
    output.done =>
        IF DocStrings = <<>> THEN output.doc_comments = <<>>
        ELSE /\ Len(Lines(output.doc_comments)) = Len(DocStrings)
             /\ \A i \in 1..Len(DocStrings) :
                   Lines(output.doc_comments)[i] = WithoutOneLeadingSpace(DocStrings[i].v.lit.value)

\* filter_doc_comments has joined two doc texts that have another attribute
\* between them, one of them starting with two spaces.
DocCommentsJoinedWitness ==
    /\ output.done
    /\ Len(input.attrs) = 3 /\ Len(DocStrings) = 2
    /\ ~IsDocString(input.attrs[2])
    /\ starts_with(input.attrs[3].v.lit.value, <<SP, SP>>)
    /\ count_newlines(output.doc_comments) = 1

\* ------------------------------------------- properties of close_block, II

\* The output line the k-th handled slice was appended to.
LineBefore(k) == SubSeq(buffer, 1, emitted[k].at)

\* The width left on that line once a space is reserved.
TrailingWidth(k) == SatSub(config.max_width, last_line_width(LineBefore(k)) + 1)

\* The k-th handled slice, a comment, stands on the line of the output before
\* it, after exactly one space.
OnSameLine(k) == OutputAt(emitted[k].at, <<SP, "/">>)

\* The k-th handled slice, a comment, starts a line of its own at the level
\* close_block was at, after a blank line or not.
OnFreshLine(k) ==
    \E blank \in {<<>>, <<NL>>} :
        OutputAt(emitted[k].at, blank \o <<NL>> \o Spaces(IndentWidth(emitted[k].indent)) \o <<"/">>)

\* C18: close_block keeps a comment on the line of the emitted content, after
\* exactly one space, if and only if the source gap since the cursor holds no
\* newline and max_width less the line's width less one is not zero; every
\* other comment starts a fresh line at the current level.
SameLineTrailingComment ==
    \A k \in CommentsHandled :
        IF ~Contains(emitted[k].gap, NL) /\ TrailingWidth(k) # 0
        THEN OnSameLine(k)
        ELSE OnFreshLine(k)

\* The width close_block leaves a same-line comment: what max_width leaves
\* after the current indentation, less the space and less what the line has
\* beyond the indentation.
WidthFromIndent(k) ==
    SatSub(SatSub(config.max_width, IndentWidth(emitted[k].indent)),
           1 + SatSub(last_line_width(LineBefore(k)), IndentWidth(emitted[k].indent)))

\* C18 (as amended): close_block keeps a comment on the line of the emitted
\* content, after exactly one space, if and only if the source gap since the
\* cursor holds no newline and the width counted from the current indentation
\* is not zero; every other comment starts a fresh line at the current level.
SameLineCommentRule ==
    \A k \in CommentsHandled :
        IF ~Contains(emitted[k].gap, NL) /\ WidthFromIndent(k) # 0
        THEN OnSameLine(k)
        ELSE OnFreshLine(k)

\* close_block has kept one comment on the line of the opening brace and has
\* put another, with no newline before it in the source either, on a fresh
\* line for want of width.
SameLineCommentWitness ==
    \E j, k \in CommentsHandled :
        /\ ~Contains(emitted[j].gap, NL) /\ OnSameLine(j)
        /\ ~Contains(emitted[k].gap, NL) /\ OnFreshLine(k)

\* ------------------------------------------- properties of visit_block, II

\* The visit_block calls that are past trim_spaces_after_opening_brace.
Trimmed == {d \in 1..Len(stack) : stack[d].pc # "enter"}

HasInnerAttr(b) == b.inner_attrs.some /\ b.inner_attrs.v # <<>>
HasContent(b) == HasInnerAttr(b) \/ b.items # <<>>

\* Where the first real content of the block of frame f starts: its first
\* inner attribute, or else its first item.
FirstContent(f) ==
    IF HasInnerAttr(f.b) THEN f.base + f.b.inner_attrs.v[1].lo ELSE f.base + f.b.items[1].lo

\* The source between the opening brace and the first real content.
OpeningGap(f) == Slice(src, f.base + BRACE_COMPENSATION, FirstContent(f))

\* The cursor is in the last line of a whitespace-only gap with a line break:
\* all that came before the last newline of the gap is behind it.
PastGap(f) ==
    (Trim(OpeningGap(f)) = <<>> /\ Contains(OpeningGap(f), NL)) =>
        f.trimmed = f.base + BRACE_COMPENSATION + RFind(OpeningGap(f), NL)

\* The cursor has passed whitespace only and is not beyond the first content.
NotPastContent(f) ==
    /\ f.trimmed >= f.base + BRACE_COMPENSATION
    /\ f.trimmed <= FirstContent(f)
    /\ Trim(Slice(src, f.base + BRACE_COMPENSATION, f.trimmed)) = <<>>

\* C19: on the NonEmpty path visit_block moves the cursor past the
\* whitespace-only gap between the opening brace and the first real content,
\* the first inner attribute or else the first item, also when the block has
\* inner attributes and no items; it never moves it past a comment in the gap
\* nor past the start of the first real content.
OpeningGapTrimmed ==
    \A d \in Trimmed : HasContent(stack[d].b) => PastGap(stack[d]) /\ NotPastContent(stack[d])

\* C19 for the blocks that have items.
OpeningGapTrimmedBeforeItems ==
    \A d \in Trimmed : stack[d].b.items # <<>> => PastGap(stack[d]) /\ NotPastContent(stack[d])

\* visit_block has left the cursor at the opening brace of a block that has an
\* inner attribute after a gap of blank lines, and no items.
OpeningGapNotTrimmed ==
    \E d \in Trimmed :
        /\ HasInnerAttr(stack[d].b) /\ stack[d].b.items = <<>>
        /\ Trim(OpeningGap(stack[d])) = <<>> /\ count_newlines(OpeningGap(stack[d])) >= 2
        /\ stack[d].trimmed = stack[d].base + BRACE_COMPENSATION

\* What the last returned visit_block call appended between the output of its
\* items and the rest of the block.
Separator == SubSeq(buffer, ret.items_at + 1, ret.tail_at)

\* The last item of the block is a statement whose expression takes a
\* semicolon under the configuration.
LastItemTakesSemicolon(b) ==
    /\ b.items # <<>>
    /\ b.variant = "Stmt"
    /\ b.items[Len(b.items)].kind = "ret" /\ config.trailing_semicolon

\* C20: after the items of a non-empty block visit_block emits one `;` if the
\* block has a last item and that item requires a semicolon under the
\* configuration, and nothing otherwise: nothing for a module block, whose
\* items never require one, and nothing for a block with no items.
SeparatorAfterItems ==
    ret.path \in {"closed", "verbatim"} =>
        /\ Separator = IF LastItemTakesSemicolon(ret.b) THEN <<";">> ELSE <<>>
        /\ ret.b.variant = "Item" => Separator = <<>>
        /\ ret.b.items = <<>> => Separator = <<>>

\* visit_block has returned from a block whose last statement is a `return`
\* without a semicolon, having appended `;` after it.
SeparatorWitness ==
    /\ ret.path = "closed"
    /\ LastItemTakesSemicolon(ret.b)
    /\ Separator = <<";">>
    /\ OutputAt(ret.items_at - 1, <<"r", ";">>)

\* ---------------------------------------------- properties of walk_stmts

\* How many items of the root block have been walked.
Walked == IF stack = <<>> THEN Len(root.items) ELSE stack[1].i - 1

\* The calls walk_stmts has made tile the items walked so far: the first
\* starts at the first item, each starts where the one before it ended and
\* consumes at least one item, visit_stmt exactly one and the grouper a run of
\* `use` items, and the last ends at the last item walked.
WalkTiles ==
    root.variant = "Stmt" =>
        /\ \A k \in 1..Len(WalkCalls) :
              /\ WalkCalls[k].n >= 1
              /\ WalkCalls[k].op = "visit_stmt" => WalkCalls[k].n = 1
              /\ WalkCalls[k].op = "visit_items_with_reordering" =>
                    \A j \in WalkCalls[k].from..(WalkCalls[k].from + WalkCalls[k].n - 1) : IsUse(j)
              /\ WalkCalls[k].from = IF k = 1 THEN 1 ELSE WalkCalls[k - 1].from + WalkCalls[k - 1].n
        /\ Walked = IF WalkCalls = <<>> THEN 0
                    ELSE WalkCalls[Len(WalkCalls)].from + WalkCalls[Len(WalkCalls)].n - 1

\* C21: walk_stmts consumes each statement exactly once and in order, each
\* step being one visit_stmt or one non-empty run of `use` items handed to the
\* grouper and the rest starting right after what was consumed, and it
\* terminates: the visit of the block returns with every statement walked.
WalkConsumesInOrder == []WalkTiles /\ <>(stack = <<>> /\ Walked = Len(root.items))

\* [stmt; use; use; stmt] has been walked in three steps.
WalkConsumesWitness ==
    /\ stack = <<>> /\ root.variant = "Stmt"
    /\ Len(root.items) = 4
    /\ ~IsUse(1) /\ IsUse(2) /\ IsUse(3) /\ ~IsUse(4)
    /\ Len(WalkCalls) = 3
    /\ WalkCalls[2] = [op |-> "visit_items_with_reordering", depth |-> 1, from |-> 2, n |-> 2]

\* ------------------------------------------ properties of visit_block, III

\* A visit_block call returns in this step.
Returns == Len(stack') < Len(stack)

\* C22: when visit_block returns the cursor is at the end of the block's span,
\* right after its closing brace in the source, whichever path it took; a call
\* that returns along the empty path has done so straight from its entry,
\* without a call of close_block.
CursorAtBlockEnd ==
    [][Returns =>
          /\ ret'.path \in {"empty", "verbatim", "closed"}
          /\ last_pos' = ret'.span.lo + Len(ret'.b.text)
          /\ Slice(src, ret'.span.lo, last_pos') = ret'.b.text
          /\ ret'.path = "empty" =>
                Top.pc = "enter" /\ calls' = calls /\ emitted' = emitted /\ ~cb'.active]_vars

\* The visit of an empty block nested in another has returned, the cursor being
\* at its end and the outer visit still under way.
CursorAtBlockEndWitness ==
    /\ ret.path = "empty" /\ ret.depth = 2
    /\ Len(stack) = 1 /\ Top.pc = "items"
    /\ last_pos = ret.span.lo + Len(ret.b.text)
    /\ last_pos < Len(src)

\* How many times the token c stands in s.
Occurrences(s, c) == Cardinality({i \in 1..Len(s) : s[i] = c})

\* What the last returned visit_block call appended for the rest of its block,
\* after the items and the separator.
RenderedRest == SubSeq(buffer, ret.tail_at + 1, ret.out_hi)

\* C23: the output of a visit_block call starts with its opening brace and
\* holds as many opening and as many closing braces as the block's source, one
\* pair for the block itself and one for each block nested in it. On the empty
\* path the closing brace is pushed once; on the reconstruction path the span
\* given to close_block ends before the source's closing brace and close_block
\* pushes `}` once, last, after a newline and the enclosing indentation; on the
\* verbatim path the only closing brace is the one of the copied source.
OneBracePairPerBlock ==
    ret.path # "none" =>
        /\ OutputAt(ret.out_lo, <<"{">>)
        /\ Occurrences(Rendered, "{") = Occurrences(ret.b.text, "{")
        /\ Occurrences(Rendered, "}") = Occurrences(ret.b.text, "}")
        /\ ret.path = "empty" => Occurrences(Rendered, "}") = 1
        /\ ret.path = "closed" =>
              /\ ret.rest.hi = ret.span.hi - BRACE_COMPENSATION
              /\ Occurrences(Slice(src, ret.rest.lo, ret.rest.hi), "}") = 0
              /\ Occurrences(RenderedRest, "}") = 1
              /\ EndsWith(Rendered, "}")
              /\ OutputAt(ret.out_hi - ret.entry_indent - 2,
                          <<NL>> \o Spaces(ret.entry_indent) \o <<"}">>)
        /\ ret.path = "verbatim" =>
              /\ RenderedRest = Slice(src, ret.rest.lo, ret.span.hi)
              /\ Occurrences(RenderedRest, "}") = 1
              /\ EndsWith(RenderedRest, "}")

\* A block with a block nested in it has been reconstructed: two pairs of
\* braces in its output, the last closing brace pushed by close_block.
OneBracePairWitness ==
    /\ ret.path = "closed" /\ ret.depth = 1
    /\ Occurrences(ret.b.text, "}") = 2
    /\ Occurrences(Rendered, "}") = 2
    /\ Occurrences(RenderedRest, "}") = 1

\* ------------------------------------ properties of ConfigOptionAttribute

\* The field has a #[config_option(...)] list attribute.
HasConfigOptionList ==
    \E i \in 1..Len(input.attrs) :
        input.attrs[i].kind = "List" /\ input.attrs[i].ident = "config_option"

IsString(item, name) == item.kind = "NameValue" /\ item.ident = name /\ item.str

\* What the items of the attribute yield: a string default, a stable version,
\* a deprecated entry with a version and an alternative.
YieldsDefault == \E i \in 1..Len(ConfigOptionItems) : IsString(ConfigOptionItems[i], "default")
YieldsStable ==
    \E i \in 1..Len(ConfigOptionItems) :
        IsString(ConfigOptionItems[i], "stable") /\ ConfigOptionItems[i].value \in Versions
YieldsDeprecated ==
    \E i \in 1..Len(ConfigOptionItems) :
        /\ ConfigOptionItems[i].kind = "List" /\ ConfigOptionItems[i].ident = "deprecated"
        /\ \E j \in 1..Len(ConfigOptionItems[i].nested) :
              /\ IsString(ConfigOptionItems[i].nested[j], "version")
              /\ ConfigOptionItems[i].nested[j].value \in Versions
        /\ \E j \in 1..Len(ConfigOptionItems[i].nested) :
              IsString(ConfigOptionItems[i].nested[j], "alternative")

====
